---- MODULE Spec2Model ----
(***************************************************************************)
(* Model of the two notebooks of berinja/regrev held in                    *)
(* src/merge_data.ipynb:                                                   *)
(*   - the incremental labelling notebook (second JSON document): the      *)
(*     revision classifier is_revision / is_convenient_revision /          *)
(*     is_effective_revision, get_prefixes, get_revised_signal and the     *)
(*     hf-trf and stanza-bilstm driver loops;                              *)
(*   - the merge notebook (first JSON document): the validation cell, the  *)
(*     merge cell and the two output cells.                                *)
(* Python values: a list is a sequence, a str that the code only compares  *)
(* or joins is a TLA+ string, a str that the code splits or searches is a  *)
(* sequence of one-character strings.  A call returns a record             *)
(* [exc, val]: exc = "none" and the returned value, or the name of the     *)
(* exception that left the call.                                           *)
(***************************************************************************)
EXTENDS Integers, Sequences, FiniteSets, TLC

\* ------------------------------------------------------------------ bounds

\* longest label sequence drawn for the classifier's inputs
MaxLen == 2
\* longest output trace drawn for get_revised_signal
MaxTrace == 3

\* the labels a sequence labeller may emit (two suffice to differ)
Labels == {"A", "B"}

\* all sequences over S of length 0..n
BSeq(S, n) == UNION {[1..k -> S] : k \in 0..n}

Min(a, b) == IF a <= b THEN a ELSE b

\* ------------------------------------------------------- python primitives

\* a call that returned v
Ret(v) == [exc |-> "none", val |-> v]
\* a call left by a failed assert
AssertionError == [exc |-> "AssertionError", val |-> -1]

\* list == list: same length and equal element by element
ListEq(a, b) == Len(a) = Len(b) /\ \A k \in 1..Len(a) : a[k] = b[k]

\* sum(np.array(a) == np.array(b)) for two lists of the same length
RECURSIVE SumEq(_, _)
SumEq(a, b) ==
    IF a = <<>> \/ b = <<>> THEN 0
    ELSE (IF Head(a) = Head(b) THEN 1 ELSE 0) + SumEq(Tail(a), Tail(b))

\* x[:n] for n >= 0
Slice(x, n) == SubSeq(x, 1, Min(n, Len(x)))

\* ------------------------------------------------------ revision classifier

\* If no revision occurred, what label to use for convenient and effective
NA_LABEL == 0

is_revision_always1(previous, current) ==
    IF Len(previous) # Len(current) THEN AssertionError ELSE Ret(1)
is_revision_noassert(previous, current) ==
    IF ListEq(Slice(previous, Len(current)), Slice(current, Len(previous)))
    THEN Ret(0) ELSE Ret(1)
is_revision(previous, current) ==
    IF Len(previous) # Len(current) THEN AssertionError
    ELSE IF ListEq(previous, current) THEN Ret(0)
    ELSE Ret(1)

is_convenient_revision_na1(previous, current, final) ==
    IF Len(previous) # Len(final) THEN AssertionError
    ELSE LET r == is_revision(previous, current) IN
         IF r.exc # "none" THEN r
         ELSE IF r.val = 0 THEN Ret(1)
         ELSE IF ListEq(previous, final) THEN Ret(0)
         ELSE Ret(1)
is_convenient_revision_cur(previous, current, final) ==
    IF Len(previous) # Len(final) THEN AssertionError
    ELSE LET r == is_revision(previous, current) IN
         IF r.exc # "none" THEN r
         ELSE IF r.val = 0 THEN Ret(NA_LABEL)
         ELSE IF ListEq(current, final) THEN Ret(1)
         ELSE Ret(0)
is_convenient_revision(previous, current, final) ==
    IF Len(previous) # Len(final) THEN AssertionError
    ELSE LET r == is_revision(previous, current) IN
         IF r.exc # "none" THEN r
         ELSE IF r.val = 0 THEN Ret(NA_LABEL)
         ELSE IF ListEq(previous, final) THEN Ret(0)
         ELSE Ret(1)

is_effective_revision_geq(previous, current, final) ==
    IF ~(Len(previous) = Len(final) /\ Len(final) = Len(current))
    THEN AssertionError
    ELSE LET r == is_revision(previous, current) IN
         IF r.exc # "none" THEN r
         ELSE IF r.val = 0 THEN Ret(NA_LABEL)
         ELSE IF SumEq(current, final) < SumEq(previous, final) THEN Ret(0)
         ELSE Ret(1)
is_effective_revision_inverted(previous, current, final) ==
    IF ~(Len(previous) = Len(final) /\ Len(final) = Len(current))
    THEN AssertionError
    ELSE LET r == is_revision(previous, current) IN
         IF r.exc # "none" THEN r
         ELSE IF r.val = 0 THEN Ret(NA_LABEL)
         ELSE LET n_correct_before == SumEq(previous, final)
                  n_correct_after == SumEq(current, final)
              IN IF n_correct_after >= n_correct_before THEN Ret(0)
                 ELSE Ret(1)
is_effective_revision(previous, current, final) ==
    IF ~(Len(previous) = Len(final) /\ Len(final) = Len(current))
    THEN AssertionError
    ELSE LET r == is_revision(previous, current) IN
         IF r.exc # "none" THEN r
         ELSE IF r.val = 0 THEN Ret(NA_LABEL)
         ELSE LET n_correct_before == SumEq(previous, final)
                  n_correct_after == SumEq(current, final)
              IN IF n_correct_after <= n_correct_before THEN Ret(0)
                 ELSE Ret(1)

\* get_prefixes(outputs, text_idx, i) for 1 <= i < len(outputs[text_idx]);
\* python indexes from 0, the trace here from 1: outputs[t][i-1] is trace[i]
get_prefixes_firstfinal(outputs, text_idx, i) ==
    LET trace == outputs[text_idx]
        previous_prefix == trace[i]
        previous_len == Len(previous_prefix)
        current_prefix == Slice(trace[i + 1], previous_len)
        final_prefix == Slice(trace[1], previous_len)
    IN [previous |-> previous_prefix,
        current |-> current_prefix,
        final |-> final_prefix]
get_prefixes_fullfinal(outputs, text_idx, i) ==
    LET trace == outputs[text_idx]
        previous_prefix == trace[i]
        previous_len == Len(previous_prefix)
        current_prefix == Slice(trace[i + 1], previous_len)
        final_prefix == trace[Len(trace)]
    IN [previous |-> previous_prefix,
        current |-> current_prefix,
        final |-> final_prefix]
get_prefixes(outputs, text_idx, i) ==
    LET trace == outputs[text_idx]
        previous_prefix == trace[i]
        previous_len == Len(previous_prefix)
        current_prefix == Slice(trace[i + 1], previous_len)
        final_prefix == Slice(trace[Len(trace)], previous_len)
    IN [previous |-> previous_prefix,
        current |-> current_prefix,
        final |-> final_prefix]

\* the outcome of get_revised_signal: the triple, or the exception
Signal(r, c, e) ==
    [exc |-> "none", revised |-> r, conv_revised |-> c, effec_revised |-> e]
SignalRaised(x) ==
    [exc |-> x, revised |-> -1, conv_revised |-> -1, effec_revised |-> -1]

get_revised_signal_nofirst(outputs, text_idx, i) ==
    IF Len(outputs[text_idx]) = 0 THEN SignalRaised("IndexError")
    ELSE LET n == Len(outputs[text_idx])
             p == IF i = 0
                  THEN [previous |-> outputs[text_idx][n],
                        current |-> Slice(outputs[text_idx][1],
                                          Len(outputs[text_idx][n])),
                        final |-> outputs[text_idx][n]]
                  ELSE get_prefixes(outputs, text_idx, i)
             revised == is_revision(p.previous, p.current)
             conv_revised ==
                 is_convenient_revision(p.previous, p.current, p.final)
             effec_revised ==
                 is_effective_revision(p.previous, p.current, p.final)
         IN IF revised.exc # "none" THEN SignalRaised(revised.exc)
            ELSE IF conv_revised.exc # "none"
            THEN SignalRaised(conv_revised.exc)
            ELSE IF effec_revised.exc # "none"
            THEN SignalRaised(effec_revised.exc)
            ELSE Signal(revised.val, conv_revised.val, effec_revised.val)
get_revised_signal(outputs, text_idx, i) ==
    IF i = 0 THEN Signal(0, NA_LABEL, NA_LABEL)
    ELSE LET p == get_prefixes(outputs, text_idx, i)
             revised == is_revision(p.previous, p.current)
             conv_revised ==
                 is_convenient_revision(p.previous, p.current, p.final)
             effec_revised ==
                 is_effective_revision(p.previous, p.current, p.final)
         IN IF revised.exc # "none" THEN SignalRaised(revised.exc)
            ELSE IF conv_revised.exc # "none"
            THEN SignalRaised(conv_revised.exc)
            ELSE IF effec_revised.exc # "none"
            THEN SignalRaised(effec_revised.exc)
            ELSE Signal(revised.val, conv_revised.val, effec_revised.val)

\* the comparisons get_revised_signal runs on its way, in call order: none
\* for i = 0, else up to the first one that raises
SignalTrail(outputs, text_idx, i) ==
    IF i = 0 THEN <<>>
    ELSE LET p == get_prefixes(outputs, text_idx, i) IN
         IF is_revision(p.previous, p.current).exc # "none"
         THEN <<"get_prefixes", "is_revision">>
         ELSE IF is_convenient_revision(p.previous, p.current, p.final).exc
                 # "none"
         THEN <<"get_prefixes", "is_revision", "is_convenient_revision">>
         ELSE <<"get_prefixes", "is_revision", "is_convenient_revision",
                "is_effective_revision">>

\* ---------------------------------------------- the classifier on its own
\* One call of one classifier function on three label sequences drawn from
\* the bounded sets (of any lengths, equal or not).

VARIABLES previous, current, final, called, ret

classifierVars == <<previous, current, final, called, ret>>

ClassifierIdle ==
    /\ previous = <<>>
    /\ current = <<>>
    /\ final = <<>>
    /\ called = "off"
    /\ ret = Ret(0)

ClassifierInit ==
    /\ previous \in BSeq(Labels, MaxLen)
    /\ current \in BSeq(Labels, MaxLen)
    /\ final \in BSeq(Labels, MaxLen)
    /\ called = "none"
    /\ ret = Ret(0)

CallIsRevision ==
    /\ called = "none"
    /\ called' = "is_revision"
    /\ ret' = is_revision(previous, current)
    /\ UNCHANGED <<previous, current, final>>

CallIsConvenientRevision ==
    /\ called = "none"
    /\ called' = "is_convenient_revision"
    /\ ret' = is_convenient_revision(previous, current, final)
    /\ UNCHANGED <<previous, current, final>>

CallIsEffectiveRevision ==
    /\ called = "none"
    /\ called' = "is_effective_revision"
    /\ ret' = is_effective_revision(previous, current, final)
    /\ UNCHANGED <<previous, current, final>>

\* --------------------------------------------- get_revised_signal on a trace
\* One call of get_revised_signal on an output trace drawn from the bounded
\* sets, at a position the drivers use: 0 <= i < n, and i = 0 for an empty
\* trace.  The single text of the trace has index "1".

VARIABLES sig_outputs, sig_i, sig_called, sig_ret, sig_trail

signalVars == <<sig_outputs, sig_i, sig_called, sig_ret, sig_trail>>

SigText == "1"

SignalIdle ==
    /\ sig_outputs = [t \in {SigText} |-> <<>>]
    /\ sig_i = 0
    /\ sig_called = "off"
    /\ sig_ret = Signal(0, 0, 0)
    /\ sig_trail = <<>>

SignalInit ==
    /\ \E trace \in BSeq(BSeq(Labels, MaxLen), MaxTrace) :
           /\ sig_outputs = [t \in {SigText} |-> trace]
           /\ sig_i \in 0..(IF Len(trace) = 0 THEN 0 ELSE Len(trace) - 1)
    /\ sig_called = "none"
    /\ sig_ret = Signal(0, 0, 0)
    /\ sig_trail = <<>>

CallGetRevisedSignal ==
    /\ sig_called = "none"
    /\ sig_called' = "get_revised_signal"
    /\ sig_ret' = get_revised_signal(sig_outputs, SigText, sig_i)
    /\ sig_trail' = SignalTrail(sig_outputs, SigText, sig_i)
    /\ UNCHANGED <<sig_outputs, sig_i>>

\* ------------------------------------------------- the labelling drivers
\* The two driver cells of the labelling notebook, run one after the other:
\* the hf-trf loop over corpus_model_names, then the stanza-bilstm loop.  A
\* text is the sequence of its tokens: the token of key str(j) is element
\* j + 1.  The labelling model is a black box: each invocation returns some
\* parsed document, a sequence of at most MaxParse parsed tokens.

\* most tokens in the texts of all modelled corpora together
MaxTokens == 4
\* most parsed tokens in one document returned by a labelling model
MaxParse == 1

\* the corpora the drivers are run on here (the first two of the list)
DriverCorpora == <<"rastros_ptbr", "potec_de">>

HF_TASKS == <<"pos", "deprel", "head">>
all_tasks == <<"upos", "xpos", "ner", "deprel", "head">>
pt_tasks == <<"upos", "deprel", "head">>

\* the task list of the k-th entry of corpus_model_names in each driver cell
TasksOf(family, k) ==
    IF family = "hf-trf" THEN HF_TASKS
    ELSE IF DriverCorpora[k] = "rastros_ptbr" THEN pt_tasks
    ELSE all_tasks

\* str(i) for the small numbers met here
StrDigits == <<"0", "1", "2", "3", "4", "5", "6", "7", "8", "9">>
Str(i) == StrDigits[i + 1]

\* the elements of a sequence
Range(q) == {q[k] : k \in 1..Len(q)}

\* token strings of the reading corpora; one holds a space, as left by the
\* replacement of '\xa0' when the texts are loaded
Vocab == <<"The", "cat", "s at">>

\* what a labelling model may say of one token.  spacy: pos_, dep_ and the
\* head's index; stanza: ner on the token and upos, xpos, deprel, head on each
\* of its words (a multi-word token has several).
Word(u, x, d, h) == [upos |-> u, xpos |-> x, deprel |-> d, head |-> h]
ParsedTokens ==
    {[pos_ |-> "NOUN", dep_ |-> "nsubj", head_i |-> 0, ner |-> "O",
      words |-> <<Word("NOUN", "NN", "nsubj", 0)>>],
     [pos_ |-> "VERB", dep_ |-> "nsubj", head_i |-> 1, ner |-> "O",
      words |-> <<Word("ADP", "IN", "case", 2), Word("DET", "DT", "det", 2)>>]}
Parses == BSeq(ParsedTokens, MaxParse)

\* get_outputs(seq, attribute) and get_head(seq) of the hf-trf cell
get_outputs(seq, attribute) ==
    [k \in 1..Len(seq) |->
        IF attribute = "pos_" THEN seq[k].pos_ ELSE seq[k].dep_]
get_head(seq) == [k \in 1..Len(seq) |-> Str(seq[k].head_i)]

\* the words of a stanza document, in order
RECURSIVE Words(_)
Words(doc) == IF doc = <<>> THEN <<>> ELSE Head(doc).words \o Words(Tail(doc))

get_stanza_outputs(doc, attribute) ==
    IF attribute = "ner" THEN [k \in 1..Len(doc) |-> doc[k].ner]
    ELSE LET w == Words(doc) IN
         [k \in 1..Len(w) |->
            IF attribute = "upos" THEN w[k].upos
            ELSE IF attribute = "xpos" THEN w[k].xpos
            ELSE IF attribute = "deprel" THEN w[k].deprel
            ELSE Str(w[k].head)]

\* the label sequence each driver appends to a task's trace for one document
TaskOutput(family, task, parsed) ==
    IF family = "hf-trf"
    THEN IF task = "pos" THEN get_outputs(parsed, "pos_")
         ELSE IF task = "deprel" THEN get_outputs(parsed, "dep_")
         ELSE get_head(parsed)
    ELSE get_stanza_outputs(parsed, task)

\* " ".join(q)
RECURSIVE JoinSpace(_)
JoinSpace(q) ==
    IF Len(q) = 0 THEN ""
    ELSE IF Len(q) = 1 THEN q[1]
    ELSE q[1] \o " " \o JoinSpace(Tail(q))

\* get_partial_input(tokens, i): the prefix up to token i, 0 <= i < n
get_partial_input_short(tokens, i) == JoinSpace(SubSeq(tokens, 1, i))
get_partial_input(tokens, i) == JoinSpace(SubSeq(tokens, 1, i + 1))

\* f'text_{text_idx}_token_{i}'
Identifier(text_idx, i) == "text_" \o text_idx \o "_token_" \o Str(i)

\* a dataframe cell: <<>> is NaN (never set), <<v>> holds v
NaN == <<>>
Cell(v) == <<v>>

\* the columns initialise_df gives the revisions table
RevisionColumns(tasks) ==
    {"revision:" \o t : t \in Range(tasks)}
        \cup {"convenient-revision:" \o t : t \in Range(tasks)}
        \cup {"effective-revision:" \o t : t \in Range(tasks)}

\* initialise_df(texts, tasks) with its call of index_df: one row per token
\* of every text, Token filled in, every label cell NaN.  The text of index
\* str(k) is corpus_texts[k].
initialise_df(corpus_texts, tasks) ==
    LET rows == UNION {{<<k, j>> : j \in 0..(Len(corpus_texts[k]) - 1)} :
                          k \in 1..Len(corpus_texts)}
        index == {Identifier(Str(r[1]), r[2]) : r \in rows}
        columns == {"Token"} \cup RevisionColumns(tasks)
    IN [id \in index |->
          [c \in columns |->
              IF c = "Token"
              THEN LET r == CHOOSE r \in rows :
                                Identifier(Str(r[1]), r[2]) = id
                   IN Cell(corpus_texts[r[1]][r[2] + 1])
              ELSE NaN]]

\* {task: {idx: [] for idx in texts[corpus_name]} for task in tasks}
create_outputs_dic(corpus_texts, tasks) ==
    [t \in Range(tasks) |-> [k \in {Str(k) : k \in 1..Len(corpus_texts)} |-> <<>>]]

VARIABLES texts, family, pc, corpus_k, text_k, loop_i, task_k, outputs,
          revisions, model_calls, cell_writes, files

driverVars == <<texts, family, pc, corpus_k, text_k, loop_i, task_k, outputs,
                revisions, model_calls, cell_writes, files>>

DriverIdle ==
    /\ texts = <<>>
    /\ family = "off"
    /\ pc = "off"
    /\ corpus_k = 0
    /\ text_k = 0
    /\ loop_i = 0
    /\ task_k = 0
    /\ outputs = <<>>
    /\ revisions = <<>>
    /\ model_calls = <<>>
    /\ cell_writes = <<>>
    /\ files = <<>>

\* a text of n tokens: the vocabulary in rotation from an offset
TextOf(n, offset) == [j \in 1..n |-> Vocab[((offset + j) % Len(Vocab)) + 1]]

\* the texts of one corpus, from the lengths of its one or two texts
TextsOf(lens, offset) == [k \in 1..Len(lens) |-> TextOf(lens[k], offset + k)]

\* the lengths of the texts of the corpora: each corpus has one or two texts
\* of at least one token, and all corpora together at most MaxTokens tokens
RECURSIVE SumSeq(_)
SumSeq(q) == IF q = <<>> THEN 0 ELSE Head(q) + SumSeq(Tail(q))
LengthChoices ==
    {ls \in [1..Len(DriverCorpora) -> BSeq(1..MaxTokens, 2) \ {<<>>}] :
        SumSeq(ls[1]) + SumSeq(ls[2]) <= MaxTokens}

DriverInit ==
    /\ \E ls \in LengthChoices :
          texts = [c \in 1..Len(DriverCorpora) |-> TextsOf(ls[c], c)]
    /\ family = "hf-trf"
    /\ pc = "start_corpus"
    /\ corpus_k = 1
    /\ text_k = 0
    /\ loop_i = 0
    /\ task_k = 0
    /\ outputs = <<>>
    /\ revisions = <<>>
    /\ model_calls = <<>>
    /\ cell_writes = <<>>
    /\ files = <<>>

corpus_name == DriverCorpora[corpus_k]
tasks == TasksOf(family, corpus_k)
tokens == texts[corpus_k][text_k]
text_idx == Str(text_k)

\* the head of one iteration of "for corpus_name, ... in corpus_model_names"
StartCorpus ==
    /\ pc = "start_corpus"
    /\ outputs' = create_outputs_dic(texts[corpus_k], tasks)
    /\ revisions' = initialise_df(texts[corpus_k], tasks)
    /\ model_calls' = <<>>
    /\ cell_writes' = [id \in DOMAIN revisions' |->
                          [c \in RevisionColumns(tasks) |-> 0]]
    /\ pc' = "label"
    /\ text_k' = 1
    /\ loop_i' = 0
    /\ UNCHANGED <<texts, family, corpus_k, task_k, files>>

\* one iteration of the first inner loop: label the prefix ending at token i
LabelPrefix_overwrite ==
    /\ pc = "label"
    /\ LET partial_input == get_partial_input(tokens, loop_i) IN
       \E parsed \in Parses :
          /\ outputs' =
                [t \in DOMAIN outputs |->
                    [outputs[t] EXCEPT
                        ![text_idx] =
                            [j \in 1..(loop_i + 1) |->
                                TaskOutput(family, t, parsed)]]]
          /\ model_calls' = Append(model_calls,
                [text |-> text_idx, input |-> partial_input, parsed |-> parsed])
    /\ IF loop_i + 1 < Len(tokens)
       THEN /\ loop_i' = loop_i + 1
            /\ UNCHANGED <<pc, task_k>>
       ELSE /\ pc' = "classify"
            /\ loop_i' = 0
            /\ task_k' = 1
    /\ UNCHANGED <<texts, family, corpus_k, text_k, revisions, cell_writes,
                   files>>
LabelPrefix_early ==
    /\ pc = "label"
    /\ LET partial_input == get_partial_input(tokens, loop_i) IN
       \E parsed \in Parses :
          /\ outputs' =
                [t \in DOMAIN outputs |->
                    [outputs[t] EXCEPT
                        ![text_idx] = Append(@, TaskOutput(family, t, parsed))]]
          /\ model_calls' = Append(model_calls,
                [text |-> text_idx, input |-> partial_input, parsed |-> parsed])
    /\ IF loop_i + 2 < Len(tokens)
       THEN /\ loop_i' = loop_i + 1
            /\ UNCHANGED <<pc, task_k>>
       ELSE /\ pc' = "classify"
            /\ loop_i' = 0
            /\ task_k' = 1
    /\ UNCHANGED <<texts, family, corpus_k, text_k, revisions, cell_writes,
                   files>>
LabelPrefix ==
    /\ pc = "label"
    /\ LET partial_input == get_partial_input(tokens, loop_i) IN
       \E parsed \in Parses :
          /\ outputs' =
                [t \in DOMAIN outputs |->
                    [outputs[t] EXCEPT
                        ![text_idx] = Append(@, TaskOutput(family, t, parsed))]]
          /\ model_calls' = Append(model_calls,
                [text |-> text_idx, input |-> partial_input, parsed |-> parsed])
    /\ IF loop_i + 1 < Len(tokens)
       THEN /\ loop_i' = loop_i + 1
            /\ UNCHANGED <<pc, task_k>>
       ELSE /\ pc' = "classify"
            /\ loop_i' = 0
            /\ task_k' = 1
    /\ UNCHANGED <<texts, family, corpus_k, text_k, revisions, cell_writes,
                   files>>

\* the place after one iteration of the second inner loops: hf-trf runs
\* "for task: for i", stanza-bilstm "for i: for task"
LastInner ==
    IF family = "hf-trf" THEN loop_i + 1 = Len(tokens)
    ELSE task_k = Len(tasks)
LastOuter ==
    IF family = "hf-trf" THEN task_k = Len(tasks)
    ELSE loop_i + 1 = Len(tokens)

\* one iteration of the second inner loops: classify position i for a task
\* and fill the three cells of its row
ClassifyPosition_skipconv ==
    /\ pc = "classify"
    /\ LET task == tasks[task_k]
           sig == get_revised_signal(outputs[task], text_idx, loop_i)
           identifier == Identifier(text_idx, loop_i)
       IN /\ sig.exc = "none"
          /\ revisions' =
                [revisions EXCEPT
                    ![identifier]["revision:" \o task] = Cell(sig.revised),
                    ![identifier]["effective-revision:" \o task] =
                        Cell(sig.effec_revised)]
          /\ cell_writes' =
                [cell_writes EXCEPT
                    ![identifier]["revision:" \o task] = @ + 1,
                    ![identifier]["effective-revision:" \o task] = @ + 1]
          /\ IF ~LastInner
             THEN /\ IF family = "hf-trf"
                     THEN loop_i' = loop_i + 1 /\ UNCHANGED task_k
                     ELSE task_k' = task_k + 1 /\ UNCHANGED loop_i
                  /\ UNCHANGED <<pc, text_k>>
             ELSE IF ~LastOuter
             THEN /\ IF family = "hf-trf"
                     THEN loop_i' = 0 /\ task_k' = task_k + 1
                     ELSE task_k' = 1 /\ loop_i' = loop_i + 1
                  /\ UNCHANGED <<pc, text_k>>
             ELSE IF text_k < Len(texts[corpus_k])
             THEN /\ pc' = "label"
                  /\ text_k' = text_k + 1
                  /\ loop_i' = 0
                  /\ UNCHANGED task_k
             ELSE /\ pc' = "save"
                  /\ UNCHANGED <<text_k, loop_i, task_k>>
    /\ UNCHANGED <<texts, family, corpus_k, outputs, model_calls, files>>
ClassifyPosition ==
    /\ pc = "classify"
    /\ LET task == tasks[task_k]
           sig == get_revised_signal(outputs[task], text_idx, loop_i)
           identifier == Identifier(text_idx, loop_i)
       IN /\ sig.exc = "none"
          /\ revisions' =
                [revisions EXCEPT
                    ![identifier]["revision:" \o task] = Cell(sig.revised),
                    ![identifier]["convenient-revision:" \o task] =
                        Cell(sig.conv_revised),
                    ![identifier]["effective-revision:" \o task] =
                        Cell(sig.effec_revised)]
          /\ cell_writes' =
                [cell_writes EXCEPT
                    ![identifier]["revision:" \o task] = @ + 1,
                    ![identifier]["convenient-revision:" \o task] = @ + 1,
                    ![identifier]["effective-revision:" \o task] = @ + 1]
          /\ IF ~LastInner
             THEN /\ IF family = "hf-trf"
                     THEN loop_i' = loop_i + 1 /\ UNCHANGED task_k
                     ELSE task_k' = task_k + 1 /\ UNCHANGED loop_i
                  /\ UNCHANGED <<pc, text_k>>
             ELSE IF ~LastOuter
             THEN /\ IF family = "hf-trf"
                     THEN loop_i' = 0 /\ task_k' = task_k + 1
                     ELSE task_k' = 1 /\ loop_i' = loop_i + 1
                  /\ UNCHANGED <<pc, text_k>>
             ELSE IF text_k < Len(texts[corpus_k])
             THEN /\ pc' = "label"
                  /\ text_k' = text_k + 1
                  /\ loop_i' = 0
                  /\ UNCHANGED task_k
             ELSE /\ pc' = "save"
                  /\ UNCHANGED <<text_k, loop_i, task_k>>
    /\ UNCHANGED <<texts, family, corpus_k, outputs, model_calls, files>>

\* the same iteration when a classifier assert fails: the exception leaves
\* the cell and the notebook run stops there
ClassifyRaises_save ==
    /\ pc = "classify"
    /\ get_revised_signal(outputs[tasks[task_k]], text_idx, loop_i).exc
           # "none"
    /\ pc' = "save"
    /\ UNCHANGED <<texts, family, corpus_k, text_k, loop_i, task_k, outputs,
                   revisions, model_calls, cell_writes, files>>
ClassifyRaises ==
    /\ pc = "classify"
    /\ get_revised_signal(outputs[tasks[task_k]], text_idx, loop_i).exc
           # "none"
    /\ pc' = "failed"
    /\ UNCHANGED <<texts, family, corpus_k, text_k, loop_i, task_k, outputs,
                   revisions, model_calls, cell_writes, files>>

\* the files one corpus iteration writes, in order: hf-trf the table and then
\* the traces, stanza-bilstm the traces and then the table
RevisionsPath == corpus_name \o "_" \o family \o "_revisions.tsv"
TracePaths ==
    [k \in 1..Len(tasks) |->
        corpus_name \o "_" \o family \o "_" \o tasks[k] \o ".json"]

\* "save everything", then on to the next corpus, the next cell or the end
SaveCorpus ==
    /\ pc = "save"
    /\ files' = files \o (IF family = "hf-trf"
                          THEN <<RevisionsPath>> \o TracePaths
                          ELSE TracePaths \o <<RevisionsPath>>)
    /\ IF corpus_k < Len(DriverCorpora)
       THEN /\ corpus_k' = corpus_k + 1
            /\ pc' = "start_corpus"
            /\ UNCHANGED family
       ELSE IF family = "hf-trf"
       THEN /\ family' = "stanza-bilstm"
            /\ corpus_k' = 1
            /\ pc' = "start_corpus"
       ELSE /\ pc' = "done"
            /\ UNCHANGED <<family, corpus_k>>
    /\ UNCHANGED <<texts, text_k, loop_i, task_k, outputs, revisions,
                   model_calls, cell_writes>>

\* ------------------------------------------------------- the merge notebook
\* A str the merge notebook splits or searches is a sequence of
\* one-character strings.

s_Token == <<"T", "o", "k", "e", "n">>
s_Identifier == <<"I", "d", "e", "n", "t", "i", "f", "i", "e", "r">>
s_Subj == <<"S", "u", "b", "j">>
s_revision == <<"r", "e", "v", "i", "s", "i", "o", "n">>
s_effective == <<"e", "f", "f", "e", "c", "t", "i", "v", "e">>
s_convenient == <<"c", "o", "n", "v", "e", "n", "i", "e", "n", "t">>
s_large == <<"l", "a", "r", "g", "e">>
s_chunk == <<"c", "h", "u", "n", "k">>
s_revision_colon == <<"r", "e", "v", "i", "s", "i", "o", "n", ":">>
s_effective_revision_colon == <<"e", "f", "f", "e", "c", "t", "i", "v", "e", "-", "r", "e", "v", "i", "s", "i", "o", "n", ":">>
s_convenient_revision_colon == <<"c", "o", "n", "v", "e", "n", "i", "e", "n", "t", "-", "r", "e", "v", "i", "s", "i", "o", "n", ":">>
s_text == <<"t", "e", "x", "t">>
s_token == <<"t", "o", "k", "e", "n">>
s_csv == <<".", "c", "s", "v">>
s_hf_trf == <<"h", "f", "-", "t", "r", "f">>
s_stanza_bilstm == <<"s", "t", "a", "n", "z", "a", "-", "b", "i", "l", "s", "t", "m">>
s_pos == <<"p", "o", "s">>
s_upos == <<"u", "p", "o", "s">>
s_deprel == <<"d", "e", "p", "r", "e", "l">>
s_pos_large == <<"p", "o", "s", "-", "l", "a", "r", "g", "e">>
s_pos_chunk == <<"p", "o", "s", "-", "c", "h", "u", "n", "k">>
s_Subj001 == <<"S", "u", "b", "j", ":", "0", "0", "1">>
s_Subj002 == <<"S", "u", "b", "j", ":", "0", "0", "2">>
s_regression == <<"r", "e", "g", "r", "e", "s", "s", "i", "o", "n">>
s_subjectid == <<"s", "u", "b", "j", "e", "c", "t", "i", "d">>

\* the corpora the merge notebook is run on here: the two with a documented
\* token tolerance and one of the four without
corpora == <<<<"r", "a", "s", "t", "r", "o", "s", "_", "p", "t", "b", "r">>,
             <<"p", "o", "t", "e", "c", "_", "d", "e">>,
             <<"p", "r", "o", "v", "o", "_", "e", "n">>>>
rastros_ptbr == corpora[1]
potec_de == corpora[2]

MEASURE == "first-pass-regression-out"
OTHER_MEASURE == "total-fixation-count"

\* sub in s
IsSubstr(sub, s) ==
    \E k \in 1..(Len(s) - Len(sub) + 1) : SubSeq(s, k, k + Len(sub) - 1) = sub

\* s.split(sep) for a one-character sep
RECURSIVE Split(_, _)
Split(s, sep) ==
    IF \A k \in 1..Len(s) : s[k] # sep THEN <<s>>
    ELSE LET k == CHOOSE k \in 1..Len(s) :
                     s[k] = sep /\ \A j \in 1..(k - 1) : s[j] # sep
         IN <<SubSeq(s, 1, k - 1)>> \o Split(SubSeq(s, k + 1, Len(s)), sep)

\* s.replace(old, '')
RECURSIVE Remove(_, _)
Remove(s, old) ==
    IF Len(s) < Len(old) THEN s
    ELSE IF SubSeq(s, 1, Len(old)) = old
    THEN Remove(SubSeq(s, Len(old) + 1, Len(s)), old)
    ELSE <<s[1]>> \o Remove(Tail(s), old)

\* a dataframe: its index, its columns in order and, per column, the cells
\* in row order
DataFrame(index, columns, data) ==
    [index |-> index, columns |-> columns, data |-> data]

\* number of token rows of every table
NumRows == 4

\* f'text_{textid}_token_{position}' as characters
MkIdentifier(textid, position) ==
    s_text \o <<"_">> \o textid \o <<"_">> \o s_token \o <<"_">> \o position

RefIndex == [k \in 1..NumRows |-> MkIdentifier(<<"1">>, <<Str(k - 1)>>)]
RefTokens == [k \in 1..NumRows |-> Cell(Vocab[((k - 1) % Len(Vocab)) + 1])]

\* index variants of a loaded table: the reference index, one with another
\* last identifier, one with a row less
IndexVariants ==
    {RefIndex,
     [RefIndex EXCEPT ![NumRows] = MkIdentifier(<<"2">>, <<"0">>)],
     SubSeq(RefIndex, 1, NumRows - 1)}

\* Token columns: the reference tokens with the first d changed, and with
\* the last one missing
TokensChanged(d) ==
    [k \in 1..NumRows |-> IF k <= d THEN Cell("x") ELSE RefTokens[k]]
TokensMissing(d) == [TokensChanged(d) EXCEPT ![NumRows] = NaN]

\* the cells of a column cut to the rows of an index
Rows(column, index) == SubSeq(column, 1, Len(index))

\* a human-measure table: Token and one column per subject
HumanTable(index, tokencol) ==
    DataFrame(index, <<s_Token, s_Subj001, s_Subj002>>,
        [c \in {s_Token, s_Subj001, s_Subj002} |->
            IF c = s_Token THEN Rows(tokencol, index)
            ELSE IF c = s_Subj001
            THEN Rows([k \in 1..NumRows |-> Cell(k % 2)], index)
            ELSE Rows([k \in 1..NumRows |-> Cell((k + 1) % 2)], index)])

\* a model revisions table as loaded: Token and the three label columns of
\* every task, renamed to f'{name}_{model}'; read_csv gives NaN for an empty
\* field, and with gaps the label fields of the last row are empty
TaskColumns(task, model) ==
    <<s_revision_colon \o task \o <<"_">> \o model,
      s_convenient_revision_colon \o task \o <<"_">> \o model,
      s_effective_revision_colon \o task \o <<"_">> \o model>>
ModelColumns(task_names, model) ==
    <<s_Token>> \o TaskColumns(task_names[1], model)
                \o TaskColumns(task_names[2], model)
LabelColumn(one, gaps) ==
    [k \in 1..NumRows |->
        IF gaps /\ k = NumRows THEN NaN ELSE Cell(IF k = one THEN 1 ELSE 0)]
ModelTable(index, tokencol, task_names, model, gaps) ==
    LET columns == ModelColumns(task_names, model) IN
    DataFrame(index, columns,
        [c \in Range(columns) |->
            IF c = columns[1] THEN Rows(tokencol, index)
            ELSE IF c = columns[2]
            THEN Rows([k \in 1..NumRows |->
                          IF gaps /\ k = NumRows THEN NaN
                          ELSE Cell(IF k = 1 THEN 0 ELSE 1)], index)
            ELSE IF c = columns[3] THEN Rows(LabelColumn(2, gaps), index)
            ELSE IF c = columns[4] THEN Rows(LabelColumn(3, gaps), index)
            ELSE IF c = columns[5] THEN Rows(LabelColumn(2, gaps), index)
            ELSE IF c = columns[6] THEN Rows(LabelColumn(1, gaps), index)
            ELSE Rows(LabelColumn(0, gaps), index)])

\* the tasks a model table may hold label columns of: those of the labelling
\* notebook, and tasks whose name carries a 'large' or 'chunk' qualifier
HfTaskChoices ==
    {<<s_pos, s_deprel>>, <<s_pos_large, s_deprel>>,
     <<s_pos_large, s_pos_chunk>>}

\* the number of changed tokens the validation cell expects of a corpus
ValidChanged(name) ==
    IF name = rastros_ptbr THEN 3 ELSE IF name = potec_de THEN 2 ELSE 0

\* tables of a corpus that pass validation
ValidHuman ==
    [m \in {MEASURE, OTHER_MEASURE} |-> HumanTable(RefIndex, RefTokens)]
ValidModels(name) ==
    [m \in {s_hf_trf, s_stanza_bilstm} |->
        ModelTable(RefIndex, TokensChanged(ValidChanged(name)),
                   IF m = s_hf_trf THEN <<s_pos, s_deprel>>
                   ELSE <<s_upos, s_deprel>>, m, FALSE)]

\* the tables a corpus may be loaded with: the reference measure sound, with
\* a missing token or not loaded at all; the other measure and the hf-trf
\* table with any index variant and Token column, with or without empty
\* label fields; the stanza-bilstm table with any number of changed tokens
HumanChoices ==
    {[m \in {MEASURE, OTHER_MEASURE} |->
         IF m = MEASURE THEN HumanTable(RefIndex, ref)
         ELSE HumanTable(idx, tok)] :
       ref \in {RefTokens, TokensMissing(0)},
       idx \in IndexVariants,
       tok \in {RefTokens, TokensChanged(1), TokensChanged(2),
                TokensChanged(3), TokensMissing(0)}}
    \cup {[m \in {OTHER_MEASURE} |-> HumanTable(RefIndex, RefTokens)]}
ModelChoices ==
    {[m \in {s_hf_trf, s_stanza_bilstm} |->
         IF m = s_hf_trf
         THEN ModelTable(idx, tok, <<s_pos, s_deprel>>, m, FALSE)
         ELSE ModelTable(RefIndex, TokensChanged(d), <<s_upos, s_deprel>>,
                         m, FALSE)] :
       idx \in IndexVariants,
       tok \in {TokensChanged(d) : d \in 0..NumRows}
                 \cup {TokensMissing(d) : d \in 0..(NumRows - 1)},
       d \in 0..NumRows}

\* model tables of a corpus that pass validation, the hf-trf table with any
\* of the task choices, with or without empty label fields
TaskVariants(name) ==
    {[m \in {s_hf_trf, s_stanza_bilstm} |->
         IF m = s_hf_trf
         THEN ModelTable(RefIndex, TokensChanged(ValidChanged(name)), ts, m,
                         gaps)
         ELSE ValidModels(name)[m]] :
       ts \in HfTaskChoices, gaps \in BOOLEAN}

VARIABLES human_data, model_data, m_pc, m_corpus, m_col, m_exc, merged,
          out_files

mergeVars == <<human_data, model_data, m_pc, m_corpus, m_col, m_exc, merged,
               out_files>>

MergeIdle ==
    /\ human_data = <<>>
    /\ model_data = <<>>
    /\ m_pc = "off"
    /\ m_corpus = 0
    /\ m_col = 0
    /\ m_exc = "none"
    /\ merged = <<>>
    /\ out_files = <<>>

\* the state after the two loading cells: every corpus with tables that pass
\* validation, but for at most one corpus, loaded with any of the choices or
\* with any of the task variants
MergeInit ==
    /\ \E odd \in 1..Len(corpora) :
       \E h \in HumanChoices \cup {ValidHuman},
          m \in ModelChoices \cup TaskVariants(corpora[odd]) :
          /\ (m \in TaskVariants(corpora[odd]) \ ModelChoices) => h = ValidHuman
          /\ human_data = [k \in 1..Len(corpora) |->
                              IF k = odd THEN h ELSE ValidHuman]
          /\ model_data = [k \in 1..Len(corpora) |->
                              IF k = odd THEN m ELSE ValidModels(corpora[k])]
    /\ m_pc = "validate"
    /\ m_corpus = 1
    /\ m_col = 0
    /\ m_exc = "none"
    /\ merged = <<>>
    /\ out_files = <<>>

\* assert all(dataframe.index == ref_index): comparing indexes of different
\* lengths raises ValueError
CheckIndex(dataframe, ref_index) ==
    IF Len(dataframe.index) # Len(ref_index) THEN "ValueError"
    ELSE IF \E k \in 1..Len(ref_index) : dataframe.index[k] # ref_index[k]
    THEN "AssertionError"
    ELSE "none"

\* the rows where column != ref_tokens; a missing value differs from
\* everything
Differing(column, ref_tokens) ==
    {k \in 1..Len(column) :
        column[k] = NaN \/ ref_tokens[k] = NaN \/ column[k] # ref_tokens[k]}

\* dataframe.Token.isna().sum()
NMissing(column) == Cardinality({k \in 1..Len(column) : column[k] = NaN})

\* the three asserts on a human-measure table: the exception, or "none"
CheckHuman(dataframe, ref_index, ref_tokens) ==
    IF CheckIndex(dataframe, ref_index) # "none"
    THEN CheckIndex(dataframe, ref_index)
    ELSE IF Differing(dataframe.data[s_Token], ref_tokens) # {}
    THEN "AssertionError"
    ELSE IF NMissing(dataframe.data[s_Token]) # 0 THEN "AssertionError"
    ELSE "none"

\* the asserts on a model table of a corpus
CheckModel_notokens(name, dataframe, ref_index, ref_tokens) ==
    IF CheckIndex(dataframe, ref_index) # "none"
    THEN CheckIndex(dataframe, ref_index)
    ELSE IF NMissing(dataframe.data[s_Token]) # 0 THEN "AssertionError"
    ELSE "none"
CheckModel_atmost(name, dataframe, ref_index, ref_tokens) ==
    IF CheckIndex(dataframe, ref_index) # "none"
    THEN CheckIndex(dataframe, ref_index)
    ELSE IF NMissing(dataframe.data[s_Token]) # 0 THEN "AssertionError"
    ELSE IF name = rastros_ptbr
    THEN IF Cardinality(Differing(dataframe.data[s_Token], ref_tokens)) <= 3
         THEN "none" ELSE "AssertionError"
    ELSE IF name = potec_de
    THEN IF Cardinality(Differing(dataframe.data[s_Token], ref_tokens)) <= 2
         THEN "none" ELSE "AssertionError"
    ELSE IF Differing(dataframe.data[s_Token], ref_tokens) = {} THEN "none"
    ELSE "AssertionError"
CheckModel(name, dataframe, ref_index, ref_tokens) ==
    IF CheckIndex(dataframe, ref_index) # "none"
    THEN CheckIndex(dataframe, ref_index)
    ELSE IF NMissing(dataframe.data[s_Token]) # 0 THEN "AssertionError"
    ELSE IF name = rastros_ptbr
    THEN IF Cardinality(Differing(dataframe.data[s_Token], ref_tokens)) = 3
         THEN "none" ELSE "AssertionError"
    ELSE IF name = potec_de
    THEN IF Cardinality(Differing(dataframe.data[s_Token], ref_tokens)) = 2
         THEN "none" ELSE "AssertionError"
    ELSE IF Differing(dataframe.data[s_Token], ref_tokens) = {} THEN "none"
    ELSE "AssertionError"

\* the exceptions one iteration of the validation cell can end with for
\* corpus k: the dictionaries are walked in the order the files were found,
\* so the first failing table is any failing human table, else any failing
\* model table
ValidationOutcomes(k) ==
    IF MEASURE \notin DOMAIN human_data[k] THEN {"KeyError"}
    ELSE LET ref_index == human_data[k][MEASURE].index
             ref_tokens == human_data[k][MEASURE].data[s_Token]
             hfail == {CheckHuman(human_data[k][m], ref_index, ref_tokens) :
                          m \in DOMAIN human_data[k]} \ {"none"}
             mfail == {CheckModel(corpora[k], model_data[k][m], ref_index,
                                  ref_tokens) :
                          m \in DOMAIN model_data[k]} \ {"none"}
         IN IF hfail # {} THEN hfail
            ELSE IF mfail # {} THEN mfail
            ELSE {"none"}

\* one iteration of the validation cell; an exception stays in m_exc and
\* ends the run in the cell that raised it
ValidateCorpus_nostop ==
    /\ m_pc = "validate"
    /\ m_exc = "none"
    /\ IF m_corpus < Len(corpora)
       THEN m_corpus' = m_corpus + 1 /\ UNCHANGED m_pc
       ELSE m_pc' = "merge" /\ m_corpus' = 1
    /\ UNCHANGED <<human_data, model_data, m_col, m_exc, merged, out_files>>
ValidateCorpus ==
    /\ m_pc = "validate"
    /\ m_exc = "none"
    /\ \E x \in ValidationOutcomes(m_corpus) :
          IF x # "none"
          THEN /\ m_exc' = x
               /\ UNCHANGED <<m_pc, m_corpus>>
          ELSE /\ IF m_corpus < Len(corpora)
                  THEN m_corpus' = m_corpus + 1 /\ UNCHANGED m_pc
                  ELSE m_pc' = "merge" /\ m_corpus' = 1
               /\ UNCHANGED m_exc
    /\ UNCHANGED <<human_data, model_data, m_col, merged, out_files>>

\* the position of an identifier in an index
RowOf(index, id) == CHOOSE k \in 1..Len(index) : index[k] = id

\* left.merge(right[columns], on='Identifier', suffixes=("", '_' + model)):
\* the rows of left whose identifier is in right too, the columns of left and
\* then those of right, a right column whose name left has already getting
\* the suffix
DfMerge(left, right, columns, model) ==
    LET keep == SelectSeq([k \in 1..Len(left.index) |-> k],
                          LAMBDA k : left.index[k] \in Range(right.index))
        newname(c) == IF c \in Range(left.columns)
                      THEN c \o <<"_">> \o model ELSE c
        added == [j \in 1..Len(columns) |-> newname(columns[j])]
    IN DataFrame(
          [j \in 1..Len(keep) |-> left.index[keep[j]]],
          left.columns \o added,
          [c \in Range(left.columns) \cup Range(added) |->
              IF c \in Range(left.columns)
              THEN [j \in 1..Len(keep) |-> left.data[c][keep[j]]]
              ELSE LET src == CHOOSE x \in Range(columns) : newname(x) = c
                   IN [j \in 1..Len(keep) |->
                         right.data[src][RowOf(right.index,
                                               left.index[keep[j]])]]])

\* the orders a dictionary of two or fewer tables may be walked in
Orders(d) == {q \in [1..Cardinality(DOMAIN d) -> DOMAIN d] : Range(q) = DOMAIN d}

\* the merge of one corpus: the reference measure joined with the revision
\* columns of every model table, in the order given
RECURSIVE MergeModels(_, _, _)
MergeModels(aux, models, order) ==
    IF order = <<>> THEN aux
    ELSE LET model == Head(order)
             data == models[model]
             columns == SelectSeq(data.columns,
                                  LAMBDA c : IsSubstr(s_revision, c))
         IN MergeModels(DfMerge(aux, data, columns, model), models,
                        Tail(order))

\* merged[key] = value on a dictionary kept in insertion order
Put(dict, key, value) ==
    IF \E k \in 1..Len(dict) : dict[k].key = key
    THEN [k \in 1..Len(dict) |->
            IF dict[k].key = key THEN [key |-> key, value |-> value]
            ELSE dict[k]]
    ELSE Append(dict, [key |-> key, value |-> value])

\* one iteration of the merge cell
MergeCorpus ==
    /\ m_pc = "merge"
    /\ m_exc = "none"
    /\ LET corpus == Split(corpora[m_corpus], "_")[1] IN
       IF MEASURE \notin DOMAIN human_data[m_corpus]
       THEN UNCHANGED merged
       ELSE \E order \in Orders(model_data[m_corpus]) :
               merged' = Put(merged, corpus,
                             MergeModels(human_data[m_corpus][MEASURE],
                                         model_data[m_corpus], order))
    /\ IF m_corpus < Len(corpora)
       THEN m_corpus' = m_corpus + 1 /\ UNCHANGED <<m_pc, m_col>>
       ELSE m_pc' = "out_rev" /\ m_corpus' = 1 /\ m_col' = 1
    /\ UNCHANGED <<human_data, model_data, m_exc, out_files>>

\* the columns an output cell writes one file for
PlainRevisionCols(data) ==
    SelectSeq(data.columns,
              LAMBDA c : /\ ~IsSubstr(s_Subj, c)
                         /\ ~IsSubstr(s_effective, c)
                         /\ ~IsSubstr(s_convenient, c)
                         /\ ~IsSubstr(s_Token, c))
EffectiveCols(data) ==
    SelectSeq(data.columns, LAMBDA c : IsSubstr(s_effective, c))
ModelCols(data, effective) ==
    IF effective THEN EffectiveCols(data) ELSE PlainRevisionCols(data)
DefaultCols(data) ==
    SelectSeq(data.columns, LAMBDA c : ~IsSubstr(s_revision, c))

\* task, model = col.replace(prefix, '').split('_') and the truncation of a
\* task with a size or chunking qualifier
TaskModel(col, prefix) == Split(Remove(col, prefix), "_")
NormalTask_largeonly(task) ==
    IF IsSubstr(s_large, task) THEN Split(task, "-")[1] ELSE task
NormalTask(task) ==
    IF IsSubstr(s_large, task) \/ IsSubstr(s_chunk, task)
    THEN Split(task, "-")[1] ELSE task

\* the long table of one column: one row per subject column and token row,
\* the subject columns in order, the Identifier split into its fields
Melt_nofill(data, col, fill) ==
    LET subjects == SelectSeq(DefaultCols(data), LAMBDA c : c # s_Token)
        n == Len(data.index)
    IN [r \in 1..(Len(subjects) * n) |->
          LET sc == subjects[((r - 1) \div n) + 1]
              k == ((r - 1) % n) + 1
              parts == Split(data.index[k], "_")
          IN [Identifier |-> data.index[k],
              Token |-> data.data[s_Token][k],
              revision |-> data.data[col][k],
              subjectid |-> Split(sc, ":")[2],
              regression |-> data.data[sc][k],
              textid |-> parts[2],
              token_position |-> parts[4]]]
Melt_firstsubject(data, col, fill) ==
    LET subjects == SelectSeq(DefaultCols(data), LAMBDA c : c # s_Token)
        n == Len(data.index)
    IN [r \in 1..(Len(subjects) * n) |->
          LET sc == subjects[((r - 1) \div n) + 1]
              k == ((r - 1) % n) + 1
              parts == Split(data.index[k], "_")
          IN [Identifier |-> data.index[k],
              Token |-> data.data[s_Token][k],
              revision |-> IF fill /\ data.data[col][k] = NaN THEN Cell(0)
                           ELSE data.data[col][k],
              subjectid |-> Split(sc, ":")[2],
              regression |-> data.data[subjects[1]][k],
              textid |-> parts[2],
              token_position |-> parts[4]]]
Melt(data, col, fill) ==
    LET subjects == SelectSeq(DefaultCols(data), LAMBDA c : c # s_Token)
        n == Len(data.index)
    IN [r \in 1..(Len(subjects) * n) |->
          LET sc == subjects[((r - 1) \div n) + 1]
              k == ((r - 1) % n) + 1
              parts == Split(data.index[k], "_")
          IN [Identifier |-> data.index[k],
              Token |-> data.data[s_Token][k],
              revision |-> IF fill /\ data.data[col][k] = NaN THEN Cell(0)
                           ELSE data.data[col][k],
              subjectid |-> Split(sc, ":")[2],
              regression |-> data.data[sc][k],
              textid |-> parts[2],
              token_position |-> parts[4]]]

\* f"{dir}{corpus}_{model}_{task}.csv"
OutputName(corpus, model, task) ==
    corpus \o <<"_">> \o model \o <<"_">> \o task \o s_csv

\* one iteration of an output cell's inner loop: the file of one column; the
\* effective cell selects the effective columns and fills a missing label
\* with 0
WriteOutput(effective, prefix, dir, nextpc) ==
    /\ LET corpus == merged[m_corpus].key
           data == merged[m_corpus].value
           col == ModelCols(data, effective)[m_col]
           tm == TaskModel(col, prefix)
       IN IF \/ Len(tm) # 2
             \/ \E c \in Range(DefaultCols(data)) :
                   (c # s_Token /\ Len(Split(c, ":")) < 2)
             \/ \E k \in 1..Len(data.index) :
                   Len(Split(data.index[k], "_")) # 4
          THEN /\ m_exc' = "ValueError"
               /\ UNCHANGED <<m_pc, m_corpus, m_col, out_files>>
          ELSE /\ out_files' = Append(out_files,
                     [dir |-> dir,
                      name |-> OutputName(corpus, tm[2], NormalTask(tm[1])),
                      rows |-> Melt(data, col, effective)])
               /\ UNCHANGED m_exc
               /\ IF m_col < Len(ModelCols(data, effective))
                  THEN m_col' = m_col + 1 /\ UNCHANGED <<m_pc, m_corpus>>
                  ELSE IF m_corpus < Len(merged)
                  THEN m_col' = 1 /\ m_corpus' = m_corpus + 1
                       /\ UNCHANGED m_pc
                  ELSE m_col' = 1 /\ m_corpus' = 1 /\ m_pc' = nextpc
    /\ UNCHANGED <<human_data, model_data, merged>>

WriteRevisionsOutput ==
    /\ m_pc = "out_rev"
    /\ m_exc = "none"
    /\ WriteOutput(FALSE, s_revision_colon,
                   "preprocessed/models-humans/revisions-regressions/",
                   "out_eff")

WriteEffectiveOutput ==
    /\ m_pc = "out_eff"
    /\ m_exc = "none"
    /\ WriteOutput(TRUE, s_effective_revision_colon,
                   "preprocessed/models-humans/effective_revisions-regressions/",
                   "done")

\* ------------------------------------------------------------ specifications

vars == <<classifierVars, signalVars, driverVars, mergeVars>>

SpecClassifierNext ==
    \/ CallIsRevision /\ UNCHANGED <<signalVars, driverVars, mergeVars>>
    \/ CallIsConvenientRevision /\ UNCHANGED <<signalVars, driverVars, mergeVars>>
    \/ CallIsEffectiveRevision /\ UNCHANGED <<signalVars, driverVars, mergeVars>>

SpecClassifierInit ==
    ClassifierInit /\ SignalIdle /\ DriverIdle /\ MergeIdle

SpecClassifier == SpecClassifierInit /\ [][SpecClassifierNext]_vars

SpecSignalNext ==
    CallGetRevisedSignal /\ UNCHANGED <<classifierVars, driverVars, mergeVars>>

SpecSignalInit ==
    SignalInit /\ ClassifierIdle /\ DriverIdle /\ MergeIdle

SpecSignal == SpecSignalInit /\ [][SpecSignalNext]_vars

SpecDriverNext ==
    \/ StartCorpus /\ UNCHANGED <<classifierVars, signalVars, mergeVars>>
    \/ LabelPrefix /\ UNCHANGED <<classifierVars, signalVars, mergeVars>>
    \/ ClassifyPosition /\ UNCHANGED <<classifierVars, signalVars, mergeVars>>
    \/ ClassifyRaises /\ UNCHANGED <<classifierVars, signalVars, mergeVars>>
    \/ SaveCorpus /\ UNCHANGED <<classifierVars, signalVars, mergeVars>>

SpecDriverInit ==
    DriverInit /\ ClassifierIdle /\ SignalIdle /\ MergeIdle

SpecDriver == SpecDriverInit /\ [][SpecDriverNext]_vars

SpecMergeNext ==
    \/ ValidateCorpus /\ UNCHANGED <<classifierVars, signalVars, driverVars>>
    \/ MergeCorpus /\ UNCHANGED <<classifierVars, signalVars, driverVars>>
    \/ WriteRevisionsOutput
           /\ UNCHANGED <<classifierVars, signalVars, driverVars>>
    \/ WriteEffectiveOutput
           /\ UNCHANGED <<classifierVars, signalVars, driverVars>>

SpecMergeInit ==
    MergeInit /\ ClassifierIdle /\ SignalIdle /\ DriverIdle

SpecMerge == SpecMergeInit /\ [][SpecMergeNext]_vars

\* ------------------------------------------------------------------- claims

\* the number of positions where two equal-length sequences agree
NAgree(a, b) == Cardinality({k \in 1..Len(a) : a[k] = b[k]})

\* the three sequences are aligned
SameLengths == Len(previous) = Len(current) /\ Len(current) = Len(final)

\* a revision occurred: aligned previous and current that differ somewhere
RevisionOccurred ==
    /\ Len(previous) = Len(current)
    /\ \E k \in 1..Len(previous) : previous[k] # current[k]

\* C1: on equal-length sequences is_revision returns 0 when they are
\* identical, 1 when they differ in at least one position, and nothing else.
C1_IsRevisionZeroOrOne ==
    (called = "is_revision" /\ Len(previous) = Len(current)) =>
        /\ ret.exc = "none"
        /\ ret.val \in {0, 1}
        /\ previous = current => ret.val = 0
        /\ (\E k \in 1..Len(previous) : previous[k] # current[k])
               => ret.val = 1

C1_Witness ==
    /\ called = "is_revision"
    /\ Len(previous) = 2 /\ Len(current) = 2
    /\ previous[1] = current[1] /\ previous[2] # current[2]
    /\ ret = Ret(1)

\* C2: on three equal-length sequences with previous # current,
\* is_effective_revision returns 1 exactly when current agrees with final in
\* strictly more positions than previous does, and 0 otherwise (ties
\* included); with previous = current it returns NA_LABEL.
C2_EffectiveIffStrictlyMoreAgreement ==
    (called = "is_effective_revision" /\ SameLengths) =>
        /\ ret.exc = "none"
        /\ previous # current =>
               ret.val = (IF NAgree(current, final) > NAgree(previous, final)
                          THEN 1 ELSE 0)
        /\ previous = current => ret.val = NA_LABEL

C2_Witness ==
    /\ called = "is_effective_revision"
    /\ SameLengths
    /\ previous # current
    /\ NAgree(current, final) = 1 /\ NAgree(previous, final) = 1
    /\ ret = Ret(0)

\* C3 as stated: when a revision occurred, is_convenient_revision returns 0
\* if and only if previous equals final and 1 in every other case.
C3_Original ==
    (called = "is_convenient_revision" /\ RevisionOccurred) =>
        /\ ret.exc = "none"
        /\ ret.val = (IF previous = final THEN 0 ELSE 1)

\* C3 amended: when a revision occurred and final is as long as previous,
\* is_convenient_revision returns 0 if and only if previous equals final and
\* 1 otherwise, whatever current's relation to final; when final has another
\* length the call raises AssertionError and returns nothing.
C3_ConvenientIffPreviousNotFinal ==
    (called = "is_convenient_revision" /\ RevisionOccurred) =>
        /\ Len(final) = Len(previous) =>
               /\ ret.exc = "none"
               /\ ret.val = (IF previous = final THEN 0 ELSE 1)
        /\ Len(final) # Len(previous) => ret = AssertionError

C3_Witness ==
    /\ called = "is_convenient_revision"
    /\ RevisionOccurred
    /\ previous = final
    /\ Len(previous) = 2
    /\ ret = Ret(0)

\* C4 as stated: is_convenient_revision returns NA_LABEL whenever
\* is_revision returns 0 (aligned, identical previous and current), for any
\* final.
C4_Original ==
    (called = "is_convenient_revision" /\ previous = current) =>
        ret = Ret(NA_LABEL)

\* C4 amended: whenever is_revision returns 0, is_convenient_revision
\* returns NA_LABEL for any final as long as previous; for a final of
\* another length it raises AssertionError.
C4_NoRevisionGivesNaLabel ==
    (called = "is_convenient_revision" /\ previous = current) =>
        /\ Len(final) = Len(previous) => ret = Ret(NA_LABEL)
        /\ Len(final) # Len(previous) => ret = AssertionError

C4_Witness ==
    /\ called = "is_convenient_revision"
    /\ previous = current
    /\ Len(previous) = 2 /\ Len(final) = 2
    /\ previous[2] # final[2]
    /\ ret = Ret(NA_LABEL)

\* C5: at token position 0 get_revised_signal yields
\* (0, NA_LABEL, NA_LABEL) whatever the trace holds, and runs none of the
\* prefix comparisons.
C5_PositionZeroNeverRevised ==
    (sig_called = "get_revised_signal" /\ sig_i = 0) =>
        /\ sig_ret = Signal(0, NA_LABEL, NA_LABEL)
        /\ sig_trail = <<>>

C5_Witness ==
    /\ sig_called = "get_revised_signal"
    /\ sig_i = 0
    /\ Len(sig_outputs[SigText]) = 2
    /\ Len(sig_outputs[SigText][1]) = 1
    /\ Len(sig_outputs[SigText][2]) = 2
    /\ sig_outputs[SigText][1][1] # sig_outputs[SigText][2][1]
    /\ sig_ret = Signal(0, NA_LABEL, NA_LABEL)

\* C6: whenever the lengths are not aligned the classifier raises
\* AssertionError instead of returning a label: is_revision for
\* len(previous) # len(current), is_convenient_revision and
\* is_effective_revision for any inequality among the three lengths.
C6_MisalignedSpansRaise ==
    /\ (called = "is_revision" /\ Len(previous) # Len(current))
           => ret = AssertionError
    /\ (called \in {"is_convenient_revision", "is_effective_revision"}
        /\ ~SameLengths)
           => ret = AssertionError

C6_Witness ==
    /\ called = "is_convenient_revision"
    /\ Len(previous) = Len(final)
    /\ Len(current) < Len(previous)
    /\ ret = AssertionError

\* the identifiers of the rows of the current corpus: one per text and token
\* position 0..n-1
CorpusIdentifiers ==
    UNION {{Identifier(Str(k), j) : j \in 0..(Len(texts[corpus_k][k]) - 1)} :
              k \in 1..Len(texts[corpus_k])}

\* C7: once the driver has classified every text of a corpus, the revisions
\* table has one row per (text, token position) and in it, for every task of
\* the corpus, all three label cells set, each assigned once: revision to 0
\* or 1, convenient-revision and effective-revision to 0, 1 or NA_LABEL.
C7_EveryLabelCellPopulated ==
    pc \in {"save", "done"} =>
        /\ DOMAIN revisions = CorpusIdentifiers
        /\ \A id \in CorpusIdentifiers : \A t \in Range(tasks) :
              /\ revisions[id]["revision:" \o t] \in {Cell(0), Cell(1)}
              /\ revisions[id]["convenient-revision:" \o t]
                     \in {Cell(0), Cell(1), Cell(NA_LABEL)}
              /\ revisions[id]["effective-revision:" \o t]
                     \in {Cell(0), Cell(1), Cell(NA_LABEL)}
              /\ cell_writes[id]["revision:" \o t] = 1
              /\ cell_writes[id]["convenient-revision:" \o t] = 1
              /\ cell_writes[id]["effective-revision:" \o t] = 1

C7_Witness ==
    /\ pc = "save"
    /\ family = "stanza-bilstm"
    /\ corpus_k = 2
    /\ Len(texts[corpus_k]) = 2
    /\ Len(texts[corpus_k][1]) = 2
    /\ revisions[Identifier("1", 1)]["revision:upos"] = Cell(1)
    /\ revisions[Identifier("1", 1)]["revision:ner"] = Cell(0)
    /\ revisions[Identifier("2", 0)]["effective-revision:head"]
           = Cell(NA_LABEL)

\* tokens 0..i of a text joined by single spaces, built from the left
RECURSIVE PrefixString(_, _)
PrefixString(toks, i) ==
    IF i = 0 THEN toks[1]
    ELSE PrefixString(toks, i - 1) \o " " \o toks[i + 1]

\* the model invocations made so far for a text of the current corpus
CallsOf(k) == SelectSeq(model_calls, LAMBDA c : c.text = Str(k))

\* the number of prefixes of text k the driver has labelled so far
Labelled(k) ==
    IF k < text_k \/ (k = text_k /\ pc # "label") THEN Len(texts[corpus_k][k])
    ELSE IF k = text_k THEN loop_i
    ELSE 0

\* C8: for every text of n tokens and every task the trace is built in
\* position order from one model invocation per prefix: the j-th invocation
\* for the text is on tokens 0..j-1 joined by single spaces, entry j of every
\* task's trace is that invocation's label sequence, and once the text is
\* labelled the trace has exactly n entries.
C8_TraceIsOneEntryPerPrefixInOrder ==
    pc \in {"label", "classify", "failed", "save"} =>
        \A k \in 1..Len(texts[corpus_k]) :
            /\ Len(CallsOf(k)) = Labelled(k)
            /\ \A j \in 1..Len(CallsOf(k)) :
                  CallsOf(k)[j].input = PrefixString(texts[corpus_k][k], j - 1)
            /\ \A t \in Range(tasks) :
                  /\ Len(outputs[t][Str(k)]) = Labelled(k)
                  /\ \A j \in 1..Labelled(k) :
                        outputs[t][Str(k)][j]
                            = TaskOutput(family, t, CallsOf(k)[j].parsed)

C8_Witness ==
    /\ pc = "classify"
    /\ family = "hf-trf"
    /\ corpus_k = 1
    /\ text_k = 1
    /\ Len(tokens) = 3
    /\ Len(model_calls) = 3
    /\ model_calls[3].input = "The cat s at"
    /\ outputs["pos"]["1"] = <<<<"NOUN">>, <<>>, <<"VERB">>>>
    /\ outputs["head"]["1"] = <<<<"0">>, <<>>, <<"1">>>>

\* the reference table of corpus k
RefTable(k) == human_data[k][MEASURE]

\* the documented number of changed tokens a corpus' model tables may have
Tolerance(name) ==
    IF name = rastros_ptbr THEN 3 ELSE IF name = potec_de THEN 2 ELSE 0

\* the tables of corpus k, human and model
TablesOf(k) ==
    {human_data[k][m] : m \in DOMAIN human_data[k]}
        \cup {model_data[k][m] : m \in DOMAIN model_data[k]}

\* corpus k has a table whose index is not the reference index, a table with
\* a missing Token, or a model table whose Token differs from the reference
\* tokens in more rows than the corpus' tolerance
Defective(k) ==
    \/ \E t \in TablesOf(k) : t.index # RefTable(k).index
    \/ \E t \in TablesOf(k) : \E r \in 1..Len(t.index) : t.data[s_Token][r] = NaN
    \/ \E m \in DOMAIN model_data[k] :
          /\ model_data[k][m].index = RefTable(k).index
          /\ Cardinality({r \in 1..Len(RefTable(k).index) :
                            model_data[k][m].data[s_Token][r]
                                # RefTable(k).data[s_Token][r]})
                 > Tolerance(corpora[k])

\* the validation cell has gone through corpus k without raising
PassedValidation(k) ==
    \/ m_pc # "validate"
    \/ m_corpus > k

\* C9: validation raises for a corpus with a human or model table whose index
\* is not the reference index, with a missing Token, or with a model table
\* whose tokens differ from the reference in more rows than the tolerance
\* (3 for rastros_ptbr, 2 for potec_de, 0 otherwise): the validation cell
\* never gets past such a corpus, and it ends there with an exception.
C9_ValidationRejectsDefects ==
    \A k \in 1..Len(corpora) :
        (MEASURE \in DOMAIN human_data[k] /\ Defective(k)) =>
            /\ ~PassedValidation(k)
            /\ (m_pc = "validate" /\ m_corpus = k /\ m_exc # "none")
                   => m_exc \in {"AssertionError", "ValueError"}

C9_Witness ==
    /\ m_pc = "validate"
    /\ m_corpus = 1
    /\ m_exc = "AssertionError"
    /\ \A t \in TablesOf(1) :
          /\ t.index = RefTable(1).index
          /\ \A r \in 1..Len(t.index) : t.data[s_Token][r] # NaN
    /\ Cardinality({r \in 1..Len(RefTable(1).index) :
                      model_data[1][s_hf_trf].data[s_Token][r]
                          # RefTable(1).data[s_Token][r]}) > 3

\* every check of the validation cell passes for every table of corpus k
ChecksPass(k) ==
    /\ MEASURE \in DOMAIN human_data[k]
    /\ \A m \in DOMAIN human_data[k] :
          CheckHuman(human_data[k][m], RefTable(k).index,
                     RefTable(k).data[s_Token]) = "none"
    /\ \A m \in DOMAIN model_data[k] :
          CheckModel(corpora[k], model_data[k][m], RefTable(k).index,
                     RefTable(k).data[s_Token]) = "none"

\* C10: nothing is merged and no output file is written unless the checks
\* have passed for the human and model tables of every corpus, and a run
\* whose validation raised has merged nothing and written nothing.
C10_ValidationBeforeMerge ==
    /\ (merged # <<>> \/ out_files # <<>> \/ m_pc # "validate")
           => \A k \in 1..Len(corpora) : ChecksPass(k)
    /\ (m_pc = "validate" /\ m_exc # "none")
           => (merged = <<>> /\ out_files = <<>>)

C10_Witness ==
    /\ m_pc = "out_rev"
    /\ Len(merged) = Len(corpora)
    /\ Len(out_files) = 1
    /\ \A k \in 1..Len(corpora) : ChecksPass(k)

\* the text of a column name after its first ':'
AfterColon(c) ==
    LET k == CHOOSE k \in 1..Len(c) : c[k] = ":" /\ \A j \in 1..(k - 1) : c[j] # ":"
    IN SubSeq(c, k + 1, Len(c))

\* the text of a corpus or column name before its first '_'
BeforeUnderscore(c) ==
    LET k == CHOOSE k \in 1..Len(c) : c[k] = "_" /\ \A j \in 1..(k - 1) : c[j] # "_"
    IN SubSeq(c, 1, k - 1)

\* the subject columns of the reference table of corpus k
Subjects(k) == SelectSeq(RefTable(k).columns, LAMBDA c : c # s_Token)

\* the label columns of a model table whose name starts with prefix
LabelColumns(k, m, prefix) ==
    {c \in Range(model_data[k][m].columns) :
        Len(c) >= Len(prefix) /\ SubSeq(c, 1, Len(prefix)) = prefix}

\* the two output cells: the prefix of the columns they write, their directory
OutputKinds ==
    {[prefix |-> s_revision_colon, effective |-> FALSE,
      dir |-> "preprocessed/models-humans/revisions-regressions/"],
     [prefix |-> s_effective_revision_colon, effective |-> TRUE,
      dir |-> "preprocessed/models-humans/effective_revisions-regressions/"]}

\* the task identifier of a label column: the text between prefix and '_'
TaskOfColumn(c, prefix) == BeforeUnderscore(SubSeq(c, Len(prefix) + 1, Len(c)))

\* the task label of a task identifier: its base name, the text before the
\* first '-', when it carries a 'large' or 'chunk' qualifier
TaskLabel(task) ==
    IF IsSubstr(s_large, task) \/ IsSubstr(s_chunk, task)
    THEN LET k == CHOOSE k \in 1..Len(task) :
                     task[k] = "-" /\ \A j \in 1..(k - 1) : task[j] # "-"
         IN SubSeq(task, 1, k - 1)
    ELSE task

\* the file of column c of model m of corpus k: <corpus>_<model>_<task>.csv
FileName(k, m, c, prefix) ==
    BeforeUnderscore(corpora[k]) \o <<"_">> \o m \o <<"_">>
        \o TaskLabel(TaskOfColumn(c, prefix)) \o s_csv

\* rows is the long table of column c of model m of corpus k
LongTableOf(rows, k, m, c, effective) ==
    LET ref == RefTable(k)
        T == Len(ref.index)
        S == Len(Subjects(k))
    IN /\ Len(rows) = T * S
       /\ \A t \in 1..T, j \in 1..S :
             /\ Cardinality({r \in 1..Len(rows) :
                    /\ rows[r].Identifier = ref.index[t]
                    /\ rows[r].subjectid = AfterColon(Subjects(k)[j])}) = 1
             /\ \A r \in 1..Len(rows) :
                   (/\ rows[r].Identifier = ref.index[t]
                    /\ rows[r].subjectid = AfterColon(Subjects(k)[j]))
                   => /\ rows[r].Token = ref.data[s_Token][t]
                      /\ rows[r].revision =
                            IF effective /\ model_data[k][m].data[c][t] = NaN
                            THEN Cell(0)
                            ELSE model_data[k][m].data[c][t]
                      /\ rows[r].regression = ref.data[Subjects(k)[j]][t]
                      /\ rows[r].Identifier =
                            MkIdentifier(rows[r].textid,
                                         rows[r].token_position)

\* the two-token table of the example: human and model table, and its output
ExampleIndex == <<MkIdentifier(<<"1">>, <<"0">>), MkIdentifier(<<"1">>, <<"1">>)>>
ExampleColumn == s_revision_colon \o s_pos \o <<"_">> \o s_hf_trf
ExampleHuman ==
    DataFrame(ExampleIndex, <<s_Token, s_Subj001>>,
        [c \in {s_Token, s_Subj001} |->
            IF c = s_Token THEN <<Cell("The"), Cell("cat")>>
            ELSE <<Cell(0), Cell(1)>>])
ExampleModel ==
    DataFrame(ExampleIndex, <<s_Token, ExampleColumn>>,
        [c \in {s_Token, ExampleColumn} |->
            IF c = s_Token THEN <<Cell("The"), Cell("cat")>>
            ELSE <<Cell(0), Cell(1)>>])
ExampleOutput ==
    Melt(MergeModels(ExampleHuman, [m \in {s_hf_trf} |-> ExampleModel],
                     <<s_hf_trf>>),
         ExampleColumn, FALSE)

C12_OutputsWrittenOnce ==
    \A i, j \in 1..Len(out_files) :
        (i # j) => (out_files[i].dir # out_files[j].dir
                    \/ out_files[i].name # out_files[j].name)

\* the text of a column name after its first '_'
AfterUnderscore(c) ==
    LET k == CHOOSE k \in 1..Len(c) : c[k] = "_" /\ \A j \in 1..(k - 1) : c[j] # "_"
    IN SubSeq(c, k + 1, Len(c))

\* a task identifier with a size or chunking qualifier
Qualified(task) == IsSubstr(s_large, task) \/ IsSubstr(s_chunk, task)

\* the text of a task identifier before its first '-'
BaseName(task) ==
    IF \A k \in 1..Len(task) : task[k] # "-" THEN task
    ELSE LET k == CHOOSE k \in 1..Len(task) :
                     task[k] = "-" /\ \A j \in 1..(k - 1) : task[j] # "-"
         IN SubSeq(task, 1, k - 1)

\* C13: every write of an output cell names its file after the task of the
\* column being written: the base name (the text before the first '-') when
\* the task identifier contains 'large' or 'chunk', the identifier unchanged
\* otherwise.
C13_QualifiedTaskTruncatedInFileName ==
    [][Len(out_files') = Len(out_files) + 1 =>
         LET effective == (m_pc = "out_eff")
             prefix == IF effective THEN s_effective_revision_colon
                       ELSE s_revision_colon
             col == ModelCols(merged[m_corpus].value, effective)[m_col]
             task == TaskOfColumn(col, prefix)
             stem == merged[m_corpus].key \o <<"_">> \o AfterUnderscore(col)
                        \o <<"_">>
             name == out_files'[Len(out_files')].name
         IN /\ Qualified(task) => name = stem \o BaseName(task) \o s_csv
            /\ ~Qualified(task) => name = stem \o task \o s_csv]_vars

C13_Witness ==
    /\ m_pc = "out_rev"
    /\ m_corpus = 2
    /\ TaskColumns(s_pos_chunk, s_hf_trf)[1]
          \in Range(model_data[1][s_hf_trf].columns)
    /\ \E n \in 1..Len(out_files) :
          out_files[n].name =
             BeforeUnderscore(corpora[1]) \o <<"_">> \o s_hf_trf \o <<"_">>
                \o s_pos \o s_csv

\* The three spans position i >= 1 of a trace is classified on (the trace
\* indexed from 1): trace[i-1], and the first L labels of trace[i] and of
\* the last entry, L = len(trace[i-1]).
SpanPrevious(trace, i) == trace[i]
SpanCurrent(trace, i) == SubSeq(trace[i + 1], 1, Min(Len(trace[i]), Len(trace[i + 1])))
SpanFinal(trace, i) ==
    SubSeq(trace[Len(trace)], 1, Min(Len(trace[i]), Len(trace[Len(trace)])))

\* the trace of the same length that keeps only the three spans of position
\* i: every other entry emptied, the labels beyond L dropped
Stripped(trace, i) ==
    [k \in 1..Len(trace) |->
        IF k = i THEN SpanPrevious(trace, i)
        ELSE IF k = Len(trace) THEN SpanFinal(trace, i)
        ELSE IF k = i + 1 THEN SpanCurrent(trace, i)
        ELSE <<>>]

\* the three-entry trace made of the three spans of position i, whose
\* position 1 has the same spans
ThreeSpans(trace, i) ==
    <<SpanPrevious(trace, i), SpanCurrent(trace, i), SpanFinal(trace, i)>>

\* C14: for a position i >= 1 the outcome of get_revised_signal depends only
\* on trace[i-1] and the first L labels of trace[i] and of the last entry:
\* it is the outcome on the trace stripped of everything else, and on the
\* trace made of the three spans alone, so any two traces with the same three
\* spans have the same outcome.
C14_TripleDependsOnlyOnTheThreeSpans ==
    (sig_called = "get_revised_signal" /\ sig_i >= 1) =>
        LET trace == sig_outputs[SigText] IN
        /\ sig_ret = get_revised_signal(
                        [t \in {SigText} |-> Stripped(trace, sig_i)],
                        SigText, sig_i)
        /\ sig_ret = get_revised_signal(
                        [t \in {SigText} |-> ThreeSpans(trace, sig_i)],
                        SigText, 1)

C14_Witness ==
    /\ sig_called = "get_revised_signal"
    /\ sig_i = 2
    /\ Len(sig_outputs[SigText]) = 3
    /\ sig_outputs[SigText][1] # <<>>
    /\ Len(sig_outputs[SigText][3]) > Len(sig_outputs[SigText][2])
    /\ Stripped(sig_outputs[SigText], 2) # sig_outputs[SigText]
    /\ sig_ret.exc = "none"
    /\ sig_ret.revised = 1

\* the texts of the current corpus whose positions are being or have been
\* classified
Classified(k) == k < text_k \/ (k = text_k /\ pc \in {"classify", "save"})

\* a step leaves the trace of every such text as it is
TracesOfClassifiedKept ==
    pc \in {"label", "classify", "save"} =>
        \A k \in 1..Len(texts[corpus_k]) :
            Classified(k) =>
                \A t \in Range(tasks) :
                    outputs'[t][Str(k)] = outputs[t][Str(k)]

\* C15: whenever a position of a text is classified, in either driver, the
\* trace of every task holds all n entries, its last entry is the output of
\* the model invocation on the complete text, and final is the first L labels
\* of that output; and no later step changes the trace of a text whose
\* positions are being or have been classified.
C15_FinalIsTheOutputForTheCompleteText ==
    /\ [](pc = "classify" =>
            LET n == Len(tokens)
                calls == CallsOf(text_k)
            IN /\ Len(calls) = n
               /\ calls[n].input = PrefixString(tokens, n - 1)
               /\ \A t \in Range(tasks) :
                     /\ Len(outputs[t][text_idx]) = n
                     /\ outputs[t][text_idx][n]
                            = TaskOutput(family, t, calls[n].parsed)
                     /\ loop_i >= 1 =>
                           get_prefixes(outputs[t], text_idx, loop_i).final
                               = SubSeq(TaskOutput(family, t, calls[n].parsed),
                                        1,
                                        Min(Len(outputs[t][text_idx][loop_i]),
                                            Len(TaskOutput(family, t,
                                                    calls[n].parsed)))))
    /\ [][TracesOfClassifiedKept]_vars

C15_Witness ==
    /\ pc = "classify"
    /\ family = "stanza-bilstm"
    /\ corpus_k = 2
    /\ text_k = 2
    /\ Len(tokens) = 2
    /\ loop_i = 1
    /\ Len(outputs["ner"]["2"]) = 2
    /\ Len(outputs["ner"]["2"][2]) = 1
    /\ Len(outputs["ner"]["1"]) = Len(texts[corpus_k][1])

\* the identifiers of the rows of text k of the current corpus
IdentifiersOf(k) ==
    {Identifier(Str(k), j) : j \in 0..(Len(texts[corpus_k][k]) - 1)}

\* a is a prefix of b
IsPrefix(a, b) == Len(a) <= Len(b) /\ \A j \in 1..Len(a) : a[j] = b[j]

\* a step of a corpus iteration keeps the loaded texts, every trace entry
\* appended so far, the Token column, every label cell already assigned and,
\* when it classifies a position of a text, every row of the other texts
LabelsDerivedOnceStep ==
    /\ texts' = texts
    /\ pc \in {"label", "classify", "save"} =>
          /\ \A t \in Range(tasks) : \A k \in 1..Len(texts[corpus_k]) :
                IsPrefix(outputs[t][Str(k)], outputs'[t][Str(k)])
          /\ DOMAIN revisions' = DOMAIN revisions
          /\ \A id \in DOMAIN revisions :
                /\ revisions'[id]["Token"] = revisions[id]["Token"]
                /\ \A c \in RevisionColumns(tasks) :
                      /\ revisions[id][c] # NaN
                            => revisions'[id][c] = revisions[id][c]
                      /\ cell_writes'[id][c] >= cell_writes[id][c]
                /\ id \notin IdentifiersOf(text_k)
                      => revisions'[id] = revisions[id]

\* C16: during a driver run every (identifier, task column) cell of the
\* revisions table is assigned at most once, and exactly once by the time the
\* corpus is saved; no step changes an assigned cell, a row of a text other
\* than the one being classified, the Token column, the loaded texts or an
\* entry already appended to a trace.
C16_LabelsDerivedOnceNeverMutated ==
    /\ [](pc \in {"label", "classify", "failed", "save"} =>
            \A id \in DOMAIN revisions : \A c \in RevisionColumns(tasks) :
                /\ cell_writes[id][c] <= 1
                /\ (cell_writes[id][c] = 0) = (revisions[id][c] = NaN)
                /\ pc = "save" => cell_writes[id][c] = 1)
    /\ [][LabelsDerivedOnceStep]_vars

C16_Witness ==
    /\ pc = "classify"
    /\ family = "hf-trf"
    /\ corpus_k = 1
    /\ text_k = 2
    /\ loop_i = 1
    /\ task_k = 1
    /\ cell_writes[Identifier("1", 0)]["effective-revision:head"] = 1
    /\ cell_writes[Identifier("2", 0)]["revision:pos"] = 1
    /\ cell_writes[Identifier("2", 1)]["revision:pos"] = 0

\* at the position being classified, the output for prefix i or the output
\* for the full text has fewer labels than the output for prefix i-1
Shrinks ==
    LET trace == outputs[tasks[task_k]][text_idx] IN
    /\ loop_i >= 1
    /\ \/ Len(trace[loop_i + 1]) < Len(trace[loop_i])
       \/ Len(trace[Len(trace)]) < Len(trace[loop_i])

\* the files of the corpus iteration under way
FilesOfCorpus == {RevisionsPath} \cup Range(TracePaths)

\* classifying a position with a shrunk output ends the run, nothing written
ShrunkOutputStopsTheRun ==
    (pc = "classify" /\ Shrinks) =>
        /\ pc' = "failed"
        /\ files' = files
        /\ revisions' = revisions

\* C17: when the output for prefix i or for the full text has fewer labels
\* than the output for prefix i-1, classifying position i raises
\* AssertionError and the run stops there; and until every text of a corpus
\* is labelled and classified, so also after such a failure, neither the
\* corpus' revisions table nor any of its trace files is written.
C17_ShrunkOutputFailsWithoutPartialResult ==
    /\ []((pc = "classify" /\ Shrinks) =>
             get_revised_signal(outputs[tasks[task_k]], text_idx, loop_i).exc
                 = "AssertionError")
    /\ [](pc \in {"label", "classify", "failed"} =>
             FilesOfCorpus \cap Range(files) = {})
    /\ [][ShrunkOutputStopsTheRun]_vars

C17_Witness ==
    /\ pc = "failed"
    /\ family = "stanza-bilstm"
    /\ corpus_k = 2
    /\ Shrinks
    /\ Len(outputs[tasks[task_k]][text_idx][loop_i + 1])
           >= Len(outputs[tasks[task_k]][text_idx][loop_i])
    /\ files # <<>>
    /\ FilesOfCorpus \cap Range(files) = {}

\* the value of column c of model m of corpus k in the row of an identifier
ModelValue(k, m, c, id) ==
    model_data[k][m].data[c][CHOOSE t \in 1..Len(model_data[k][m].index) :
                                model_data[k][m].index[t] = id]

\* the revision column of file f is column c of model m of corpus k, a
\* missing value replaced by 0 when filled
RevisionColumnOf(f, k, m, c, filled) ==
    \A r \in 1..Len(f.rows) :
        f.rows[r].revision =
            IF filled /\ ModelValue(k, m, c, f.rows[r].Identifier) = NaN
            THEN Cell(0)
            ELSE ModelValue(k, m, c, f.rows[r].Identifier)

\* C18: in every effective-revision output no revision is missing: the
\* column holds the model table's effective-revision values with every
\* missing one replaced by 0; every plain-revision output holds the model
\* table's revision values as they are, missing ones included.
C18_EffectiveRevisionFilledWithZero ==
    \A n \in 1..Len(out_files) :
        \E k \in 1..Len(corpora), kind \in OutputKinds :
        \E m \in DOMAIN model_data[k] :
        \E c \in LabelColumns(k, m, kind.prefix) :
           /\ out_files[n].dir = kind.dir
           /\ out_files[n].name = FileName(k, m, c, kind.prefix)
           /\ RevisionColumnOf(out_files[n], k, m, c, kind.effective)
           /\ kind.effective =>
                 \A r \in 1..Len(out_files[n].rows) :
                     out_files[n].rows[r].revision # NaN

C18_Witness ==
    /\ m_pc = "done"
    /\ model_data[1][s_hf_trf].data[TaskColumns(s_pos, s_hf_trf)[3]][NumRows]
           = NaN
    /\ \E n \in 1..Len(out_files) :
          /\ out_files[n].dir
                = "preprocessed/models-humans/effective_revisions-regressions/"
          /\ out_files[n].name = FileName(1, s_hf_trf,
                                          TaskColumns(s_pos, s_hf_trf)[3],
                                          s_effective_revision_colon)
          /\ out_files[n].rows[NumRows].revision = Cell(0)
    /\ \E n \in 1..Len(out_files) :
          /\ out_files[n].dir
                = "preprocessed/models-humans/revisions-regressions/"
          /\ out_files[n].rows[NumRows].revision = NaN

\* C19: a triple get_revised_signal computes is (0, NA_LABEL, NA_LABEL),
\* (1, 0, 0), (1, 1, 0) or (1, 1, 1): effective = 1 implies convenient = 1, a
\* revision away from a prediction equal to the final output is never
\* effective, and convenient = 1 or effective = 1 implies revision = 1.
C19_OnlyFourTriples ==
    (sig_called = "get_revised_signal" /\ sig_ret.exc = "none") =>
        /\ sig_ret \in {Signal(0, NA_LABEL, NA_LABEL), Signal(1, 0, 0),
                        Signal(1, 1, 0), Signal(1, 1, 1)}
        /\ sig_ret.effec_revised = 1 => sig_ret.conv_revised = 1
        /\ (sig_ret.conv_revised = 1 \/ sig_ret.effec_revised = 1)
              => sig_ret.revised = 1
        /\ (sig_i >= 1 /\ sig_ret.revised = 1
              /\ SpanPrevious(sig_outputs[SigText], sig_i)
                    = SpanFinal(sig_outputs[SigText], sig_i))
              => (sig_ret.conv_revised = 0 /\ sig_ret.effec_revised = 0)

C19_Witness ==
    /\ sig_called = "get_revised_signal"
    /\ sig_i = 1
    /\ Len(sig_outputs[SigText]) = 3
    /\ sig_ret = Signal(1, 1, 0)

\* C20: at the last position of a text of n >= 2 tokens current and final
\* are the same span of the last trace entry, so a revision found there is
\* convenient and effective: the triple is never (1, 0, 0) or (1, 1, 0).
C20_LastPositionRevisionIsEffective ==
    (/\ sig_called = "get_revised_signal"
     /\ Len(sig_outputs[SigText]) >= 2
     /\ sig_i = Len(sig_outputs[SigText]) - 1) =>
        /\ get_prefixes(sig_outputs, SigText, sig_i).current
              = get_prefixes(sig_outputs, SigText, sig_i).final
        /\ (sig_ret.exc = "none" /\ sig_ret.revised = 1) =>
              (sig_ret.conv_revised = 1 /\ sig_ret.effec_revised = 1)
        /\ sig_ret \notin {Signal(1, 0, 0), Signal(1, 1, 0)}

C20_Witness ==
    /\ sig_called = "get_revised_signal"
    /\ Len(sig_outputs[SigText]) = 3
    /\ sig_i = 2
    /\ Len(sig_outputs[SigText][3]) > Len(sig_outputs[SigText][2])
    /\ sig_ret = Signal(1, 1, 1)

\* the number of rows in which the Token of table t of corpus k differs from
\* the reference tokens
NDiffer(t, k) ==
    Cardinality({r \in 1..Len(RefTable(k).index) :
                    t.data[s_Token][r] # RefTable(k).data[s_Token][r]})

\* corpus k passes every check but, possibly, the comparison of token texts
OtherwiseSound(k) ==
    /\ MEASURE \in DOMAIN human_data[k]
    /\ \A t \in TablesOf(k) :
          /\ t.index = RefTable(k).index
          /\ \A r \in 1..Len(t.index) : t.data[s_Token][r] # NaN

\* every model table of corpus k differs from the reference tokens in
\* exactly the corpus' count of rows, and no human table differs at all
ExactTokenCounts(k) ==
    /\ \A m \in DOMAIN model_data[k] :
          NDiffer(model_data[k][m], k) = Tolerance(corpora[k])
    /\ \A m \in DOMAIN human_data[k] : NDiffer(human_data[k][m], k) = 0

\* C21: the token tolerance is an exact count: a corpus whose tables pass
\* the other checks gets through validation if and only if every model table
\* differs from the reference tokens in exactly 3 rows (rastros_ptbr),
\* exactly 2 (potec_de) or none (every other corpus), and every human table
\* in none; fewer differing rows than the count are rejected like more.
C21_ToleranceIsAnExactCount ==
    \A k \in 1..Len(corpora) :
        OtherwiseSound(k) =>
            /\ PassedValidation(k) => ExactTokenCounts(k)
            /\ (m_pc = "validate" /\ m_corpus = k /\ m_exc # "none")
                  => (~ExactTokenCounts(k) /\ m_exc = "AssertionError")

C21_Witness ==
    /\ m_pc = "validate"
    /\ m_corpus = 1
    /\ m_exc = "AssertionError"
    /\ OtherwiseSound(1)
    /\ \A m \in DOMAIN human_data[1] : NDiffer(human_data[1][m], 1) = 0
    /\ NDiffer(model_data[1][s_stanza_bilstm], 1) = 3
    /\ NDiffer(model_data[1][s_hf_trf], 1) = 0

====
